---- MODULE Spec2Model ----
(***************************************************************************)
(* docker-tcp-switchboard: a TCP proxy that starts one docker container    *)
(* per accepted connection, relays to it, and kills it on disconnect.      *)
(*                                                                         *)
(* The model follows src/docker-tcp-switchboard.py.  The twisted reactor   *)
(* is single threaded and DockerPorts.create blocks inside connectionMade, *)
(* so every handler is one atomic action.  The docker runtime and the      *)
(* sockets are the environment: their results (exit codes, the parsed      *)
(* port, what a readiness probe sees) are inputs drawn with \E.            *)
(*                                                                         *)
(* The state is the reachable heap (the DockerPorts registry, the open     *)
(* protocols, the DockerInstance objects something still refers to) and    *)
(* the containers the runtime keeps running.  An object nothing refers to  *)
(* any more is dropped; identities are never reused.                       *)
(***************************************************************************)
EXTENDS Integers, Sequences, FiniteSets, TLC

\* ---------------------------------------------------------------- bounds
MaxSessions == 3      \* connections accepted in one run
MaxOpen     == 2      \* connections open at the same time
MaxHostPort == 2      \* host ports the runtime hands out
MaxLimit    == 1      \* the positive "limit" a config section may state
MaxPolls    == 2      \* readiness probes that fit into the timeout

\* Python's None, for a port, an instance id and an instance reference.
None == 0

Images     == {"web", "ssh"}            \* config sections other than "global"
OuterPorts == {22, 80}                  \* values of "outerport"
Limits     == {0, MaxLimit}             \* values of "limit"
HostPorts  == 1 .. MaxHostPort          \* ports "docker port" can report

\* What one __isPortOpen attempt meets: connect refused, connected but the
\* recv timed out, connected and recv returned b"", connected and one byte.
ProbeResults == {"refused", "timeout", "empty", "byte"}

\* The times of the readiness wait, in tenths of a second.
timeout     == 50     \* __waitForOpenPort(timeout=5)
step        == 1      \* __waitForOpenPort(step=0.1)
readtimeout == 1      \* __isPortOpen(readtimeout=0.1)

VARIABLES
    pc,               \* "boot": the loop of __main__, "run": reactor.run(), "exit"
    config,           \* the parsed config file: section -> outerport, limit
    todo,             \* sections the loop of __main__ has not reached yet
    listening,        \* outer ports with a listening socket
    imageParams,      \* DockerPorts.imageParams
    instancesByPort,  \* DockerPorts.instancesByPort: port -> instance
    instancesByName,  \* DockerPorts.instancesByName: image -> list of instances
    instances,        \* the DockerInstance objects still referred to, by identity
    created,          \* number of DockerInstance objects constructed so far
    started,          \* the instances whose start() returned an instance id
    destroyCalls,     \* per instance, the DockerPorts.destroy calls made on it
    docker,           \* the running containers: container -> mapped host port
    calls,            \* the docker commands the last handler issued, in order
    sessions,         \* the DockerProxyServer protocols accepted so far
    poll              \* the loop of __waitForOpenPort, unfolded (SpecWait)

vars == <<pc, config, todo, listening, imageParams, instancesByPort,
          instancesByName, instances, created, started, destroyCalls,
          docker, calls, sessions, poll>>

\* ------------------------------------------------------- small helpers
\* list.remove(x): drops the first occurrence.
Remove(seq, x) ==
    LET F[k \in 0 .. Len(seq)] ==
            IF k = 0 THEN << >>
            ELSE IF seq[k] = x /\ ~(\E j \in 1 .. k - 1 : seq[j] = x)
                 THEN F[k - 1]
                 ELSE Append(F[k - 1], seq[k])
    IN F[Len(seq)]

Range(seq) == {seq[k] : k \in 1 .. Len(seq)}

SeqsUpTo(S, n) == UNION {[1 .. k -> S] : k \in 1 .. n}

\* dict store d[k] = v and dict delete del d[k].
Store(d, k, v) == [x \in DOMAIN d \cup {k} |-> IF x = k THEN v ELSE d[x]]
Without(d, k)  == [x \in DOMAIN d \ {k} |-> d[x]]

\* ------------------------------------------------------- DockerInstance
\* DockerInstance.__init__.
DockerInstance(imagename, dockerparams) ==
    [ imagename    |-> imagename,
      dockerparams |-> dockerparams,
      middleport   |-> None,
      instanceid   |-> None ]

\* DockerInstance.stop on the container cid (None when instanceid is
\* unset): docker kill, and docker rm only when the kill returned 0.
\* Gives the running containers and the commands issued afterwards, and
\* stop's return value.
Stop(cid, running, killRc, rmRc) ==
    IF killRc # 0
    THEN [docker |-> running, calls |-> <<"kill">>, ret |-> FALSE]
    ELSE IF rmRc # 0
    THEN [docker |-> Without(running, cid), calls |-> <<"kill", "rm">>, ret |-> FALSE]
    ELSE [docker |-> Without(running, cid), calls |-> <<"kill", "rm">>, ret |-> TRUE]

\* Faulty variant: an established connection counts as open, byte or not.
IsPortOpenOnConnect(probe) ==
    CASE probe = "refused" -> FALSE
      [] probe = "timeout" -> FALSE
      [] probe = "empty"   -> TRUE
      [] probe = "byte"    -> TRUE

\* DockerInstance.__isPortOpen: True only when the connect succeeded and
\* recv(1) returned at least one byte; socket.error (refused, timeout)
\* and an empty read give False.
IsPortOpen(probe) ==
    CASE probe = "refused" -> FALSE
      [] probe = "timeout" -> FALSE
      [] probe = "empty"   -> FALSE
      [] probe = "byte"    -> TRUE

\* DockerInstance.__waitForOpenPort: probes is what the successive attempts
\* meet until started + timeout has passed; the loop returns True at the
\* first open attempt and False when the attempts are used up.
RECURSIVE WaitForOpenPort(_)
WaitForOpenPort(probes) ==
    IF probes = << >> THEN FALSE
    ELSE IF IsPortOpen(Head(probes)) THEN TRUE
    ELSE WaitForOpenPort(Tail(probes))

\* The loop of __waitForOpenPort step by step, for one start().  elapsed is
\* time.time() - started; attempts counts the calls of __isPortOpen; last
\* is what the latest attempt met; ret is the value returned once pc is
\* "return".  Spec keeps the loop inside the handler that runs it and takes
\* its outcome from WaitForOpenPort; there poll stays at PollIdle.
PollIdle ==
    [pc |-> "idle", elapsed |-> 0, attempts |-> 0, last |-> "none", ret |-> FALSE]

\* DockerInstance.start of the object d with identity id.  in.runRc,
\* in.portRc: exit codes of "docker run" and "docker port"; in.hostport: the
\* port of the mapping when the output of "docker port" has the expected
\* shape, None when it cannot be parsed; in.probes: the readiness probes;
\* in.killRc, in.rmRc: exit codes inside stop().  The container gets the
\* identity of its instance as container id.
Start(d, id, in) ==
    IF in.runRc # 0
    THEN [inst |-> d, docker |-> docker, calls |-> <<"run">>, ret |-> None]
    ELSE
      LET run     == [d EXCEPT !.instanceid = id]
          running == Store(docker, id, in.hostport)
      IN  IF in.portRc # 0
          THEN [inst |-> run, docker |-> running,
                calls |-> <<"run", "port">>, ret |-> None]
          ELSE IF in.hostport = None
          THEN LET st == Stop(run.instanceid, running, in.killRc, in.rmRc)
               IN  [inst |-> run, docker |-> st.docker,
                    calls |-> <<"run", "port">> \o st.calls, ret |-> None]
          ELSE
            LET mapped == [run EXCEPT !.middleport = in.hostport]
            IN  IF WaitForOpenPort(in.probes)
                THEN [inst |-> mapped, docker |-> running,
                      calls |-> <<"run", "port">>, ret |-> mapped.instanceid]
                ELSE LET st == Stop(mapped.instanceid, running, in.killRc, in.rmRc)
                     IN  [inst |-> mapped, docker |-> st.docker,
                          calls |-> <<"run", "port">> \o st.calls, ret |-> None]

\* ---------------------------------------------------------- DockerPorts
\* DockerPorts.registerProxy: a plain dict store under the outer port.
RegisterProxy(imagename, outerport, params, limit) ==
    Store(imageParams, outerport,
          [imagename |-> imagename, params |-> params, limit |-> limit])

\* Faulty variant: the limit test lets one instance too many in.
LimitReachedOffByOne(imagename, imagelimit) ==
    /\ imagelimit > 0
    /\ imagename \in DOMAIN instancesByName
    /\ Len(instancesByName[imagename]) > imagelimit

\* Faulty variant: the limit test also applies to the limit 0.
LimitReachedZeroLimit(imagename, imagelimit) ==
    /\ imagelimit >= 0
    /\ imagename \in DOMAIN instancesByName
    /\ Len(instancesByName[imagename]) >= imagelimit

\* The limit test of DockerPorts.create.
LimitReached(imagename, imagelimit) ==
    /\ imagelimit > 0
    /\ imagename \in DOMAIN instancesByName
    /\ Len(instancesByName[imagename]) >= imagelimit

\* The second half of DockerPorts.create: construct the instance, start
\* it, register it in both mappings and return it.  The value start()
\* returns is not looked at, as in the source (startRet only records it).
CreateInstance(outerport, in) ==
    LET imagename == imageParams[outerport].imagename
        id        == created + 1
        st        == Start(DockerInstance(imagename, imageParams[outerport].params),
                           id, in)
        p         == st.inst.middleport
        byName    == IF imagename \notin DOMAIN instancesByName
                     THEN Store(instancesByName, imagename, << >>)
                     ELSE instancesByName
    IN  [ ret |-> id, startRet |-> st.ret, created |-> id,
          instances |-> Store(instances, id, st.inst),
          docker |-> st.docker, calls |-> st.calls,
          instancesByPort |-> Store(instancesByPort, p, id),
          instancesByName |-> [byName EXCEPT ![imagename] = Append(@, id)] ]

\* Faulty variant: the instance is constructed and started before the limit test.
CreateStartsFirst(outerport, in) ==
    LET r == CreateInstance(outerport, in)
    IN  IF LimitReached(imageParams[outerport].imagename,
                        imageParams[outerport].limit)
        THEN [r EXCEPT !.ret = None, !.startRet = None,
                       !.instances = instances,
                       !.instancesByPort = instancesByPort,
                       !.instancesByName = instancesByName]
        ELSE r

\* Faulty variant: an instance of the image that is already registered is handed
\* out again instead of constructing a new one.
CreatePooled(outerport, in) ==
    LET imagename == imageParams[outerport].imagename
    IN  IF /\ imagename \in DOMAIN instancesByName
           /\ instancesByName[imagename] # << >>
        THEN [ ret |-> instancesByName[imagename][1], startRet |-> None,
               created |-> created, instances |-> instances,
               docker |-> docker, calls |-> << >>,
               instancesByPort |-> instancesByPort,
               instancesByName |-> instancesByName ]
        ELSE CreateInstance(outerport, in)

\* DockerPorts.create.  ret is the instance (its identity) or None.
Create(outerport, in) ==
    IF LimitReached(imageParams[outerport].imagename,
                    imageParams[outerport].limit)
    THEN [ ret |-> None, startRet |-> None, created |-> created,
           instances |-> instances, docker |-> docker, calls |-> << >>,
           instancesByPort |-> instancesByPort,
           instancesByName |-> instancesByName ]
    ELSE CreateInstance(outerport, in)

\* DockerPorts.destroy.  raised is TRUE when "del instancesByPort[p]"
\* raises KeyError or "remove" raises ValueError; the statements after the
\* raising one are then not executed.
Destroy(id, killRc, rmRc) ==
    LET st == Stop(instances[id].instanceid, docker, killRc, rmRc)
        p  == instances[id].middleport
        n  == instances[id].imagename
    IN  IF p \notin DOMAIN instancesByPort
        THEN [ raised |-> TRUE, docker |-> st.docker, calls |-> st.calls,
               instancesByPort |-> instancesByPort,
               instancesByName |-> instancesByName ]
        ELSE IF id \notin Range(instancesByName[n])
        THEN [ raised |-> TRUE, docker |-> st.docker, calls |-> st.calls,
               instancesByPort |-> Without(instancesByPort, p),
               instancesByName |-> instancesByName ]
        ELSE [ raised |-> FALSE, docker |-> st.docker, calls |-> st.calls,
               instancesByPort |-> Without(instancesByPort, p),
               instancesByName |-> [instancesByName EXCEPT ![n] = Remove(@, id)] ]

\* ------------------------------------------------------ the environment
\* Host ports no running container holds: the runtime maps a new container
\* to one of these.  (A container whose mapping the program never learned
\* holds a port outside HostPorts.)
FreePorts == HostPorts \ {docker[c] : c \in DOMAIN docker}

\* The exit codes of "docker kill" and "docker rm" one stop() can meet.
StopRcs ==
    {[killRc |-> 1, rmRc |-> 0], [killRc |-> 0, rmRc |-> 1],
     [killRc |-> 0, rmRc |-> 0]}

\* Exit codes "docker kill" and "docker rm" can give inside one stop() of
\* container cid: the kill can succeed only on a running container, and
\* the rm is run only after a successful kill.
StopInputs(cid, running) ==
    IF cid \in DOMAIN running THEN StopRcs
    ELSE {rc \in StopRcs : rc.killRc # 0}

\* What the readiness attempts of one __waitForOpenPort can meet.
Polls == SeqsUpTo(ProbeResults, MaxPolls)

\* What the runtime and the sockets can answer during one start() whose
\* "docker port" output parses to host port h (None: the container is not
\* launched, "docker port" fails, or its output cannot be parsed).  Fields
\* a path does not read are left at a fixed value.
StartInputsOn(h) ==
    LET base == [ runRc |-> 0, portRc |-> 0, hostport |-> h,
                  probes |-> << >>, killRc |-> 0, rmRc |-> 0 ]
    IN  IF h = None
        THEN {[base EXCEPT !.runRc = 1]}
             \cup {[base EXCEPT !.portRc = 1]}
             \cup {[base EXCEPT !.killRc = s.killRc, !.rmRc = s.rmRc] : s \in StopRcs}
        ELSE {[base EXCEPT !.probes = q, !.killRc = s.killRc, !.rmRc = s.rmRc] :
                 q \in {x \in Polls : ~WaitForOpenPort(x)}, s \in StopRcs}
             \cup {[base EXCEPT !.probes = q] :
                      q \in {x \in Polls : WaitForOpenPort(x)}}

\* The inputs of one start(), given the host ports still free.
StartInputs == UNION {StartInputsOn(h) : h \in {None} \cup FreePorts}

\* ---------------------------------------------------- DockerProxyServer
\* A protocol whose connection is gone: the reactor drops it, and only the
\* reference it still holds is kept.
ClosedSession(ref) ==
    [ outerport |-> None, state |-> "closed", paused |-> FALSE,
      dockerinstance |-> ref, written |-> FALSE, disconnecting |-> FALSE,
      outbound |-> "none" ]

\* Faulty variant: connectionMade does not pause the transport, so the
\* client is read from before an instance is chosen.
ConnectionMadeNoPause(outerport, in) ==
    /\ pc = "run"
    /\ outerport \in listening
    /\ Len(sessions) < MaxSessions
    /\ Cardinality({s \in 1 .. Len(sessions) : sessions[s].state = "open"}) < MaxOpen
    /\ LET r == Create(outerport, in)
       IN  /\ instances' = r.instances
           /\ created' = r.created
           /\ started' = IF r.startRet # None THEN started \cup {r.ret} ELSE started
           /\ destroyCalls' = IF r.ret # None THEN Store(destroyCalls, r.ret, 0)
                              ELSE destroyCalls
           /\ docker' = r.docker
           /\ calls' = r.calls
           /\ instancesByPort' = r.instancesByPort
           /\ instancesByName' = r.instancesByName
           /\ sessions' = Append(sessions,
                [ outerport      |-> outerport,
                  state          |-> "open",
                  paused         |-> FALSE,
                  dockerinstance |-> r.ret,
                  written        |-> (r.ret = None),
                  disconnecting  |-> (r.ret = None),
                  outbound       |-> IF r.ret = None THEN "none" ELSE "connecting" ])
    /\ UNCHANGED <<poll, pc, config, todo, listening, imageParams>>

\* DockerProxyServer.connectionMade for a connection accepted on outerport.
\* paused: transport.pauseProducing() is in force; written: the rejection
\* line was written; disconnecting: transport.loseConnection() was called;
\* outbound: the client connection reactor.connectTCP opened.
ConnectionMade(outerport, in) ==
    /\ pc = "run"
    /\ outerport \in listening
    /\ Len(sessions) < MaxSessions
    /\ Cardinality({s \in 1 .. Len(sessions) : sessions[s].state = "open"}) < MaxOpen
    /\ LET r == Create(outerport, in)
       IN  /\ instances' = r.instances
           /\ created' = r.created
           /\ started' = IF r.startRet # None THEN started \cup {r.ret} ELSE started
           /\ destroyCalls' = IF r.ret # None THEN Store(destroyCalls, r.ret, 0)
                              ELSE destroyCalls
           /\ docker' = r.docker
           /\ calls' = r.calls
           /\ instancesByPort' = r.instancesByPort
           /\ instancesByName' = r.instancesByName
           /\ sessions' = Append(sessions,
                [ outerport      |-> outerport,
                  state          |-> "open",
                  paused         |-> TRUE,
                  dockerinstance |-> r.ret,
                  written        |-> (r.ret = None),
                  disconnecting  |-> (r.ret = None),
                  outbound       |-> IF r.ret = None THEN "none" ELSE "connecting" ])
    /\ UNCHANGED <<poll, pc, config, todo, listening, imageParams>>

\* Faulty variant: connectionLost forgets to destroy the instance.
ConnectionLostNoDestroy(s, killRc, rmRc) ==
    /\ pc = "run"
    /\ s \in 1 .. Len(sessions)
    /\ sessions[s].state = "open"
    /\ sessions' = [sessions EXCEPT ![s] =
                       [state |-> "closed", outerport |-> None, paused |-> FALSE,
                        dockerinstance |-> None, written |-> FALSE,
                        disconnecting |-> FALSE, outbound |-> "none"]]
    /\ calls' = << >>
    /\ UNCHANGED <<poll, pc, config, todo, listening, imageParams, created, instances,
                   started, destroyCalls, docker, instancesByPort,
                   instancesByName>>

\* DockerProxyServer.connectionLost, however the connection ended.  When
\* destroy raises, "self.dockerinstance = None" is not reached and the
\* instance stays referred to; otherwise nothing refers to it any more.
ConnectionLost(s, killRc, rmRc) ==
    /\ pc = "run"
    /\ s \in 1 .. Len(sessions)
    /\ sessions[s].state = "open"
    /\ IF sessions[s].dockerinstance # None
       THEN LET id == sessions[s].dockerinstance
                r  == Destroy(id, killRc, rmRc)
            IN  /\ docker' = r.docker
                /\ calls' = r.calls
                /\ destroyCalls' = [destroyCalls EXCEPT ![id] = @ + 1]
                /\ instancesByPort' = r.instancesByPort
                /\ instancesByName' = r.instancesByName
                /\ IF r.raised
                   THEN /\ sessions' = [sessions EXCEPT ![s] = ClosedSession(id)]
                        /\ UNCHANGED <<instances, started>>
                   ELSE /\ sessions' = [sessions EXCEPT ![s] = ClosedSession(None)]
                        /\ instances' = Without(instances, id)
                        /\ started' = started \ {id}
       ELSE /\ sessions' = [sessions EXCEPT ![s] = ClosedSession(None)]
            /\ calls' = << >>
            /\ UNCHANGED <<instances, started, destroyCalls, docker,
                           instancesByPort, instancesByName>>
    /\ UNCHANGED <<poll, pc, config, todo, listening, imageParams, created>>

\* The connection opened by connectTCP is established: a running
\* container holds the port.  ProxyClient.connectionMade sets the peer and
\* resumes the paused server transport.
ClientConnectionMade(s) ==
    /\ pc = "run"
    /\ s \in 1 .. Len(sessions)
    /\ sessions[s].state = "open"
    /\ sessions[s].outbound = "connecting"
    /\ instances[sessions[s].dockerinstance].middleport # None
    /\ \E c \in DOMAIN docker :
          docker[c] = instances[sessions[s].dockerinstance].middleport
    /\ sessions' = [sessions EXCEPT ![s].outbound = "connected",
                                    ![s].paused = FALSE]
    /\ calls' = << >>
    /\ UNCHANGED <<poll, pc, config, todo, listening, imageParams, instancesByPort,
                   instancesByName, instances, created, started,
                   destroyCalls, docker>>

\* The connection opened by connectTCP fails (refused, or timed out):
\* ProxyClientFactory.clientConnectionFailed closes the server transport.
ClientConnectionFailed(s) ==
    /\ pc = "run"
    /\ s \in 1 .. Len(sessions)
    /\ sessions[s].state = "open"
    /\ sessions[s].outbound = "connecting"
    /\ sessions' = [sessions EXCEPT ![s].outbound = "failed",
                                    ![s].disconnecting = TRUE]
    /\ calls' = << >>
    /\ UNCHANGED <<poll, pc, config, todo, listening, imageParams, instancesByPort,
                   instancesByName, instances, created, started,
                   destroyCalls, docker>>

\* Faulty variant: the instance is released as soon as the backend side
\* closes, while the client's connection still exists.
ClientConnectionLostDestroys(s) ==
    /\ pc = "run"
    /\ s \in 1 .. Len(sessions)
    /\ sessions[s].state = "open"
    /\ sessions[s].outbound = "connected"
    /\ sessions' = [sessions EXCEPT ![s].outbound = "closed",
                                    ![s].disconnecting = TRUE]
    /\ destroyCalls' = [destroyCalls EXCEPT ![sessions[s].dockerinstance] = @ + 1]
    /\ calls' = << >>
    /\ UNCHANGED <<poll, pc, config, todo, listening, imageParams, instancesByPort,
                   instancesByName, instances, created, started, docker>>

\* The backend side of an established relay closes: ProxyClient.
\* connectionLost closes the server transport.
ClientConnectionLost(s) ==
    /\ pc = "run"
    /\ s \in 1 .. Len(sessions)
    /\ sessions[s].state = "open"
    /\ sessions[s].outbound = "connected"
    /\ sessions' = [sessions EXCEPT ![s].outbound = "closed",
                                    ![s].disconnecting = TRUE]
    /\ calls' = << >>
    /\ UNCHANGED <<poll, pc, config, todo, listening, imageParams, instancesByPort,
                   instancesByName, instances, created, started,
                   destroyCalls, docker>>

\* ------------------------------------------------------------ __main__
\* One round of the loop of __main__: registerProxy, then listenTCP, which
\* raises CannotListenError when the port is already bound.
MainLoop(imagename) ==
    /\ pc = "boot"
    /\ imagename \in todo
    /\ imageParams' = RegisterProxy(imagename, config[imagename].outerport,
                                    config[imagename].dockerparams,
                                    config[imagename].limit)
    /\ todo' = todo \ {imagename}
    /\ IF config[imagename].outerport \in listening
       THEN pc' = "exit" /\ UNCHANGED listening
       ELSE pc' = pc /\ listening' = listening \cup {config[imagename].outerport}
    /\ UNCHANGED <<poll, config, instancesByPort, instancesByName, instances, created,
                   started, destroyCalls, docker, calls, sessions>>

\* reactor.run() once every section is registered.
ReactorRun ==
    /\ pc = "boot"
    /\ todo = {}
    /\ pc' = "run"
    /\ UNCHANGED <<poll, config, todo, listening, imageParams, instancesByPort,
                   instancesByName, instances, created, started,
                   destroyCalls, docker, calls, sessions>>

\* The config files the model reads: the sections "web", on port 22 with a
\* positive limit, and "ssh", on either port with or without a limit.
Configs ==
    {c \in [Images -> [outerport : OuterPorts, dockerparams : {"-P"},
                       limit : Limits]] :
        c["web"].outerport = 22 /\ c["web"].limit = MaxLimit}

\* DockerPorts.__init__ and the parsed config.
Init ==
    /\ pc = "boot"
    /\ config \in Configs
    /\ todo = Images
    /\ listening = {}
    /\ imageParams = << >>
    /\ instancesByPort = << >>
    /\ instancesByName = << >>
    /\ instances = << >>
    /\ created = 0
    /\ started = {}
    /\ destroyCalls = << >>
    /\ docker = << >>
    /\ calls = << >>
    /\ sessions = << >>
    /\ poll = PollIdle

Next ==
    \/ \E n \in Images : MainLoop(n)
    \/ ReactorRun
    \/ \E op \in OuterPorts : \E in \in StartInputs : ConnectionMade(op, in)
    \/ \E s \in 1 .. MaxSessions :
         \E rc \in StopRcs :
            /\ s \in 1 .. Len(sessions)
            /\ rc \in StopInputs(IF sessions[s].dockerinstance \in DOMAIN instances
                                 THEN instances[sessions[s].dockerinstance].instanceid
                                 ELSE None, docker)
            /\ ConnectionLost(s, rc.killRc, rc.rmRc)
    \/ \E s \in 1 .. MaxSessions : ClientConnectionMade(s)
    \/ \E s \in 1 .. MaxSessions : ClientConnectionFailed(s)
    \/ \E s \in 1 .. MaxSessions : ClientConnectionLost(s)

Spec == Init /\ [][Next]_vars

\* ---------------------------------------------------- __waitForOpenPort
\* The program's own variables, which the loop leaves alone.
program == <<pc, config, todo, listening, imageParams, instancesByPort,
             instancesByName, instances, created, started, destroyCalls,
             docker, calls, sessions>>

\* "while started + timeout >= time.time()", and "return False" after it.
WaitWhile ==
    /\ poll.pc = "while"
    /\ poll' = IF timeout >= poll.elapsed
               THEN [poll EXCEPT !.pc = "probe"]
               ELSE [poll EXCEPT !.pc = "return", !.ret = FALSE]
    /\ UNCHANGED program

\* "if self.__isPortOpen(): return True".  A read that times out takes
\* readtimeout; a refusal, an empty read and a byte come at once.
WaitProbe(probe) ==
    /\ poll.pc = "probe"
    /\ poll' = [pc       |-> IF IsPortOpen(probe) THEN "return" ELSE "sleep",
                elapsed  |-> poll.elapsed
                               + (IF probe = "timeout" THEN readtimeout ELSE 0),
                attempts |-> poll.attempts + 1,
                last     |-> probe,
                ret      |-> IsPortOpen(probe)]
    /\ UNCHANGED program

\* "time.sleep(step)".
WaitSleep ==
    /\ poll.pc = "sleep"
    /\ poll' = [poll EXCEPT !.pc = "while", !.elapsed = @ + step]
    /\ UNCHANGED program

\* "started = time.time()" at the head of __waitForOpenPort; the program
\* around it is as DockerPorts.__init__ left it.
InitWait ==
    /\ pc = "boot"
    /\ config \in Configs
    /\ todo = Images
    /\ listening = {}
    /\ imageParams = << >>
    /\ instancesByPort = << >>
    /\ instancesByName = << >>
    /\ instances = << >>
    /\ created = 0
    /\ started = {}
    /\ destroyCalls = << >>
    /\ docker = << >>
    /\ calls = << >>
    /\ sessions = << >>
    /\ poll = [PollIdle EXCEPT !.pc = "while"]

NextWait ==
    \/ WaitWhile
    \/ \E probe \in ProbeResults : WaitProbe(probe)
    \/ WaitSleep

\* The loop is straight-line code in the reactor thread: it keeps running.
SpecWait == InitWait /\ [][NextWait]_vars /\ WF_vars(NextWait)

\* =============================================================== claims
\* What the registry and the protocols show of the program's state.
Open(s) == sessions[s].state = "open"

\* The instances registered in the manager, in either mapping.
Registered ==
    {instancesByPort[p] : p \in DOMAIN instancesByPort}
    \cup UNION {Range(instancesByName[n]) : n \in DOMAIN instancesByName}

RegisteredOf(imagename) ==
    {i \in Registered : instances[i].imagename = imagename}

\* The step is a connectionMade: one more protocol exists afterwards.
Accepted == Len(sessions') = Len(sessions) + 1

\* The step is the connectionLost of session s.
Lost(s) == s \in 1 .. Len(sessions) /\ Open(s) /\ sessions'[s].state = "closed"

\* C1: for every image registered with a limit N > 0, at most N instances
\* of that image are registered in the manager at any time (counted in
\* its instancesByName list and over both mappings), whatever the
\* interleaving of connections and disconnections.
C1_LimitRespected ==
    \A op \in DOMAIN imageParams :
        imageParams[op].limit > 0 =>
            /\ Cardinality(RegisteredOf(imageParams[op].imagename))
                  <= imageParams[op].limit
            /\ imageParams[op].imagename \in DOMAIN instancesByName =>
                  Len(instancesByName[imageParams[op].imagename])
                      <= imageParams[op].limit

\* C1 witness: an image is at its positive limit while a further
\* connection for it has been turned away and another session is open.
C1_Witness ==
    \E s \in 1 .. Len(sessions) :
        /\ Open(s) /\ sessions[s].written
        /\ imageParams[sessions[s].outerport].limit > 0
        /\ Cardinality(RegisteredOf(imageParams[sessions[s].outerport].imagename))
              = imageParams[sessions[s].outerport].limit
        /\ \E t \in 1 .. Len(sessions) :
              Open(t) /\ sessions[t].dockerinstance # None

\* C2 (as claimed): every registered instance is held by an open session,
\* so that nothing stays registered once all sessions have ended.
C2_RegisteredOwned ==
    \A i \in Registered :
        \E s \in 1 .. Len(sessions) : Open(s) /\ sessions[s].dockerinstance = i

\* C3 (as claimed): when the session holding an instance that became ready
\* ends, destroy is called on the instance and both "docker kill" and
\* "docker rm" are issued.
C3_ReadyReleased ==
    [][\A s \in 1 .. Len(sessions) :
          (Lost(s) /\ sessions[s].dockerinstance \in started) =>
              /\ destroyCalls'[sessions[s].dockerinstance]
                    = destroyCalls[sessions[s].dockerinstance] + 1
              /\ "kill" \in Range(calls')
              /\ "rm" \in Range(calls')]_vars

\* C4 (as claimed): a create whose start fails returns a failure and
\* registers nothing: both mappings are as before the call.
C4_FailedStartNotRegistered ==
    [][(Accepted /\ created' = created + 1 /\ created' \notin started') =>
          /\ sessions'[Len(sessions')].dockerinstance = None
          /\ instancesByPort' = instancesByPort
          /\ instancesByName' = instancesByName]_vars

\* C5 (as claimed): a session has an outbound connection only to an
\* instance whose readiness check saw a byte, i.e. whose start succeeded.
C5_RelayOnlyWhenReady ==
    \A s \in 1 .. Len(sessions) :
        (Open(s) /\ sessions[s].outbound # "none") =>
            sessions[s].dockerinstance \in started

\* C6: a create that denies admission has no side effect: no instance is
\* constructed, no docker command is issued, the running containers and
\* both mappings are unchanged.
C6_DenialNoSideEffects ==
    [][(Accepted /\ sessions'[Len(sessions')].dockerinstance = None) =>
          /\ created' = created
          /\ instances' = instances
          /\ calls' = << >>
          /\ docker' = docker
          /\ instancesByPort' = instancesByPort
          /\ instancesByName' = instancesByName]_vars

\* C6 witness: a connection was denied while its image was at its limit.
C6_Witness ==
    \E s \in 1 .. Len(sessions) :
        /\ Open(s) /\ sessions[s].dockerinstance = None /\ sessions[s].written
        /\ Len(instancesByName[imageParams[sessions[s].outerport].imagename])
              >= imageParams[sessions[s].outerport].limit

\* C7: a connection for an image registered with limit 0 is never denied,
\* however many instances of the image are registered.
C7_UnlimitedNeverDenied ==
    [][(Accepted /\ imageParams[sessions'[Len(sessions')].outerport].limit = 0) =>
          sessions'[Len(sessions')].dockerinstance # None]_vars

\* C7 witness: an image with limit 0 has more instances registered than
\* any positive limit of the configuration would allow.
C7_Witness ==
    \E op \in DOMAIN imageParams :
        /\ imageParams[op].limit = 0
        /\ Cardinality(RegisteredOf(imageParams[op].imagename)) > MaxLimit

\* C8: no two sessions refer to the same instance, and the instance a new
\* session gets is a new object: none constructed before, released or not.
C8_ExclusiveInstance ==
    [][/\ \A s, t \in 1 .. Len(sessions') :
             (s # t /\ sessions'[s].dockerinstance # None) =>
                 sessions'[s].dockerinstance # sessions'[t].dockerinstance
       /\ (Accepted /\ sessions'[Len(sessions')].dockerinstance # None) =>
             sessions'[Len(sessions')].dockerinstance > created]_vars

\* C8 witness: a session holds an instance after an earlier session
\* released its own, while another session holds a different instance.
C8_Witness ==
    \E s, t, u \in 1 .. Len(sessions) :
        /\ s < t /\ ~Open(s) /\ Open(t) /\ Open(u) /\ t # u
        /\ sessions[t].dockerinstance # None
        /\ sessions[u].dockerinstance # None
        /\ created = 3

\* C9: the connectionLost of a session holding an instance calls destroy
\* on it once, and it is the only destroy the instance ever gets; the
\* connectionLost of a session holding none calls neither destroy nor
\* stop and leaves the registry as it was.
C9_DestroyOnce ==
    [][\A s \in 1 .. Len(sessions) : Lost(s) =>
          IF sessions[s].dockerinstance # None
          THEN /\ destroyCalls'[sessions[s].dockerinstance]
                     = destroyCalls[sessions[s].dockerinstance] + 1
               /\ destroyCalls'[sessions[s].dockerinstance] = 1
               /\ \A i \in DOMAIN destroyCalls \ {sessions[s].dockerinstance} :
                     destroyCalls'[i] = destroyCalls[i]
          ELSE /\ destroyCalls' = destroyCalls
               /\ calls' = << >>
               /\ docker' = docker
               /\ instancesByPort' = instancesByPort
               /\ instancesByName' = instancesByName]_vars

\* C9 witness: a session holding an instance and a denied session have
\* both ended, and the instance was destroyed.
C9_Witness ==
    /\ \E i \in DOMAIN destroyCalls :
          destroyCalls[i] = 1 /\ i \notin DOMAIN instances
    /\ \E s \in 1 .. Len(sessions) : Open(s) /\ sessions[s].dockerinstance # None
    /\ Len(sessions) > created
    /\ \A s \in 1 .. Len(sessions) :
          sessions[s].dockerinstance = None => ~Open(s)

\* C10 (as claimed): a session whose create was denied or whose instance
\* failed to start has the rejection written, is being closed, holds no
\* instance and has no outbound connection.
C10_FailureRejects ==
    \A s \in 1 .. Len(sessions) :
        (Open(s) /\ sessions[s].dockerinstance \notin started) =>
            /\ sessions[s].written
            /\ sessions[s].disconnecting
            /\ sessions[s].dockerinstance = None
            /\ sessions[s].outbound = "none"

\* C11 (as claimed): a connection for an image at its positive limit is
\* rejected, and once a session holding an instance of that image has
\* ended the image is below its limit again, so that the next connection
\* for it is admitted.
C11_SlotFreedByDisconnect ==
    [][/\ \A op \in DOMAIN imageParams :
             (/\ Accepted
              /\ sessions'[Len(sessions')].outerport = op
              /\ LimitReached(imageParams[op].imagename, imageParams[op].limit))
                 => sessions'[Len(sessions')].dockerinstance = None
       /\ \A s \in 1 .. Len(sessions) :
             (/\ Lost(s)
              /\ sessions[s].dockerinstance # None
              /\ LimitReached(imageParams[sessions[s].outerport].imagename,
                              imageParams[sessions[s].outerport].limit))
                 => Len(instancesByName'[imageParams[sessions[s].outerport].imagename])
                       < imageParams[sessions[s].outerport].limit]_vars

\* C12 (as claimed): when "docker run" and the port query succeed but the
\* readiness wait times out, both "docker kill" and "docker rm" are issued
\* for the instance and the client connection is closed with nothing
\* relayed: no outbound connection, reading never resumed.
C12_NotReadyStoppedAndClosed ==
    [][(/\ Accepted
        /\ created' = created + 1
        /\ instances'[created'].middleport # None
        /\ created' \notin started') =>
          /\ "kill" \in Range(calls')
          /\ "rm" \in Range(calls')
          /\ sessions'[Len(sessions')].disconnecting
          /\ sessions'[Len(sessions')].paused
          /\ sessions'[Len(sessions')].outbound = "none"]_vars

\* C13 (as claimed): the instances in instancesByPort are exactly those in
\* the lists of instancesByName, each under one key, so that the number of
\* keys of instancesByPort is the total length of the lists; also when
\* several instances have no host port.
C13_MappingsAgree ==
    /\ {instancesByPort[p] : p \in DOMAIN instancesByPort}
          = UNION {Range(instancesByName[n]) : n \in DOMAIN instancesByName}
    /\ \A i \in Registered :
          /\ i \in Range(instancesByName[instances[i].imagename])
          /\ instances[i].middleport \in DOMAIN instancesByPort
          /\ instancesByPort[instances[i].middleport] = i
    /\ \A n \in DOMAIN instancesByName :
          Cardinality(Range(instancesByName[n])) = Len(instancesByName[n])
    /\ Cardinality(DOMAIN instancesByPort)
          = Cardinality(UNION {Range(instancesByName[n]) :
                                  n \in DOMAIN instancesByName})

\* C14 (as claimed): the destroy of a registered instance completes, takes
\* exactly that instance out of instancesByPort and instancesByName, and
\* leaves the entries of every other instance as they were, whatever
\* "docker kill" and "docker rm" return.
C14_DestroyRemovesExactly ==
    [][\A s \in 1 .. Len(sessions) :
          (/\ Lost(s)
           /\ sessions[s].dockerinstance # None
           /\ sessions[s].dockerinstance \in Registered) =>
             /\ sessions'[s].dockerinstance = None
             /\ instancesByPort' =
                   [p \in {q \in DOMAIN instancesByPort :
                              instancesByPort[q] # sessions[s].dockerinstance}
                      |-> instancesByPort[p]]
             /\ instancesByName' =
                   [n \in DOMAIN instancesByName |->
                       Remove(instancesByName[n], sessions[s].dockerinstance)]]_vars

\* C15 (as claimed): every stop() issues both "docker kill" and "docker
\* rm": whenever a handler has issued the kill, it has issued the rm too.
C15_StopKillsAndRemoves ==
    "kill" \in Range(calls) => "rm" \in Range(calls)

\* C16 (as claimed): when "docker run" succeeded but no host port was
\* obtained, because "docker port" failed or its output could not be
\* parsed, start fails and calls stop() before it returns: the handler has
\* issued "docker kill".
C16_NoPortStopsInStart ==
    [][(/\ Accepted
        /\ created' = created + 1
        /\ instances'[created'].instanceid # None
        /\ instances'[created'].middleport = None) =>
          /\ created' \notin started'
          /\ "kill" \in Range(calls')]_vars

\* C17 (as claimed): the instance of a session is destroyed only once the
\* session's connection to the backend has been closed, never while that
\* connection is established.
C17_ReleaseAfterBackendClosed ==
    [][\A s \in 1 .. Len(sessions) :
          (Lost(s) /\ sessions[s].dockerinstance # None) =>
              sessions[s].outbound # "connected"]_vars

\* C17 (amended): the instance of a session is destroyed only in the
\* connectionLost of that session, that is once the client side of the
\* relay has ended; the connection to the backend may still be
\* established at that moment.
C17_ReleaseOnlyAtConnectionLost ==
    [][\A i \in DOMAIN destroyCalls :
          destroyCalls'[i] # destroyCalls[i] =>
              \E s \in 1 .. Len(sessions) :
                  Lost(s) /\ sessions[s].dockerinstance = i]_vars

\* C17 witness: an instance has been destroyed once and is referred to no
\* more, a session is closed, and another session still relays.
C17_Witness ==
    /\ \E i \in DOMAIN destroyCalls :
          /\ destroyCalls[i] = 1
          /\ i \notin DOMAIN instances
    /\ \E s \in 1 .. Len(sessions) : ~Open(s)
    /\ \E t \in 1 .. Len(sessions) :
          Open(t) /\ sessions[t].outbound = "connected"

\* C18: the transport of a session is paused from connectionMade on and
\* is resumed only for a session that holds an instance returned by create
\* and whose outbound connection was established; the transport of a
\* rejected session stays paused for as long as the session exists.
C18_NoReadBeforeInstance ==
    \A s \in 1 .. Len(sessions) :
        Open(s) =>
            /\ ~sessions[s].paused =>
                  /\ sessions[s].dockerinstance # None
                  /\ sessions[s].outbound \in {"connected", "closed"}
            /\ sessions[s].dockerinstance = None => sessions[s].paused
            /\ sessions[s].outbound \in {"none", "connecting", "failed"} =>
                  sessions[s].paused

\* C18 witness: a rejected session is open and paused while the session
\* holding the instance of the same image relays, its transport resumed.
C18_Witness ==
    \E s, t \in 1 .. Len(sessions) :
        /\ Open(s) /\ sessions[s].dockerinstance = None /\ sessions[s].paused
        /\ Open(t) /\ sessions[t].dockerinstance # None /\ ~sessions[t].paused
        /\ sessions[s].outerport = sessions[t].outerport

\* C19: the readiness wait always returns.  It returns True at the first
\* attempt that reads a byte and only then; a refusal, a read timeout or
\* an established connection that yields no byte never makes it return
\* True; it returns False only once more than timeout has passed, which
\* happens after at most timeout / step + 1 attempts.
C19_PollingTerminates ==
    /\ <>(poll.pc = "return")
    /\ [](poll.last = "byte" => (poll.pc = "return" /\ poll.ret))
    /\ []((poll.pc = "return" /\ poll.ret) => poll.last = "byte")
    /\ []((poll.pc = "return" /\ ~poll.ret) =>
             (poll.elapsed > timeout /\ poll.last # "byte"))
    /\ [](poll.pc # "return" => ~poll.ret)
    /\ [](poll.attempts <= (timeout \div step) + 1)

\* C19 witness: the wait has returned False after the timeout, its last
\* attempt an established connection that gave no byte.
C19_Witness ==
    /\ poll.pc = "return"
    /\ ~poll.ret
    /\ poll.last = "empty"
    /\ poll.attempts > 1
    /\ poll.elapsed > timeout

\* C20 (as claimed): a registerProxy for an outer port that is already
\* registered leaves imageParams as it was.
C20_DuplicatePortRefused ==
    [][\A n \in Images :
          (/\ pc = "boot"
           /\ n \in todo
           /\ todo' = todo \ {n}
           /\ config[n].outerport \in DOMAIN imageParams) =>
              imageParams' = imageParams]_vars

====
